---------------------------- MODULE Spec2Model ----------------------------
(***************************************************************************)
(* A model of tcf_to_ometiff: the conversion of one acquisition folder     *)
(* (transform_tcf) and of a batch of sibling folders (transform_folder).   *)
(*                                                                         *)
(* Python dictionaries and h5py attribute sets are functions whose DOMAIN  *)
(* is the set of keys present; a lookup of a missing key is a KeyError.    *)
(* An exception is a string held in the variable exception, "" when none.  *)
(* numpy arrays are modelled by their shape, a sequence of axis sizes.     *)
(***************************************************************************)
EXTENDS Integers, Sequences, FiniteSets, TLC

(***************************************************************************)
(* Bounds of the model.                                                    *)
(***************************************************************************)
\* most groups under "Data" of a container
MaxGroups == 2
\* most time steps (datasets) of a group
MaxT == 2
\* most z slices of a volume
MaxZ == 2
\* most subfolders of the top folder
MaxFolders == 2

\* sample values of the inputs that no branch of the code depends on
RawY == 3
RawX == 2
TimeIntervalValue == 3
TileTimestepValue == 1
TileTimestepSizeValue == 5

(***************************************************************************)
(* Names.                                                                  *)
(***************************************************************************)
\* the group names transform_tcf branches on
KnownNames == {"2DMIP", "2D", "BF", "3D", "2DFLMIP", "3DFL"}
FLNames == {"2DFLMIP", "3DFL"}
\* the names a "Data" root may hold, in h5py's listing order (by name);
\* "2DFL" stands for a group the converter does not know
NameOrder == <<"2D", "2DFL", "2DFLMIP", "2DMIP", "3D", "3DFL", "BF">>
\* the sub-channel names of a fluorescence group, in listing order
ChannelOrder == <<"CH0", "CH1", "CH2">>

\* the subsequence of order made of the members of S
RECURSIVE Listing(_, _)
Listing(order, S) ==
    IF order = <<>> THEN <<>>
    ELSE IF Head(order) \in S
         THEN <<Head(order)>> \o Listing(Tail(order), S)
         ELSE Listing(Tail(order), S)

Range(s) == {s[i] : i \in 1..Len(s)}

\* n copies of x, as Python's n*[x] (the empty list when n <= 0)
Repeat(n, x) == [i \in 1..n |-> x]

\* Python's d1.update(d2): the keys of d2 win
Update(d1, d2) ==
    [k \in (DOMAIN d1) \cup (DOMAIN d2) |-> IF k \in DOMAIN d2 THEN d2[k] ELSE d1[k]]

EmptyDict == [k \in {} |-> 0]

\* the decimal numerals of one digit: str(n), and int(s) as its inverse
Numerals == <<"0", "1", "2", "3", "4", "5", "6", "7", "8", "9">>
StrOf(n) == Numerals[n + 1]
IsNumeral(s) == s \in Range(Numerals)
IntOf(s) == (CHOOSE i \in 1..Len(Numerals) : Numerals[i] = s) - 1

\* the third character of a sub-channel or channel name: channel[2], image_name[2]
Char2(name) ==
    CASE name \in {"CH0", "fl0"} -> "0"
      [] name \in {"CH1", "fl1"} -> "1"
      [] name \in {"CH2", "fl2"} -> "2"
      [] name \in {"CH3", "fl3"} -> "3"
      [] OTHER -> "?"

\* "Channel:{}".format(i), "Annotation:{}".format(i)
ChannelId(i) == <<"Channel", i>>
AnnotationId(i) == <<"Annotation", i>>

(***************************************************************************)
(* Metadata builders.                                                      *)
(***************************************************************************)
\* def_light_source: the laser record for the reserved id, an LED otherwise
def_light_source(light_source_id) ==
    IF light_source_id = "LightSource:0"
    THEN [kind |-> "Laser", id |-> light_source_id, tuneable |-> FALSE,
          type |-> "SolidState", wavelength |-> 532]
    ELSE [kind |-> "LightEmittingDiode", id |-> light_source_id]

\* a slip: every fluorescence sub-channel gets the excitation of the first
def_channel_one_excitation(image_name, img_md) ==
    LET c == Char2(image_name)
        kEmi == "FLCH" \o c \o "_Fluorophore_Emission"
        kName == "FLCH" \o c \o "_Fluorophore_Name"
        color == CASE c = "1" -> "#008000FF" [] c = "2" -> "#FF0000FF"
                   [] OTHER -> "#0000FFFF"
    IN  IF image_name \in {"ht", "bf"}
        THEN [raised |-> "",
              value |-> [id |-> <<>>, name |-> image_name, contrast_method |-> "Phase",
                         light_source |-> "LightSource:0", excitation |-> 532,
                         color |-> "", emission |-> "", fluor |-> ""]]
        ELSE IF kEmi \notin DOMAIN img_md \/ kName \notin DOMAIN img_md
        THEN [raised |-> "KeyError", value |-> <<>>]
        ELSE [raised |-> "",
              value |-> [id |-> <<>>, name |-> "Fluorescence " \o color,
                         contrast_method |-> "Fluorescence",
                         light_source |-> "LightSource:1", excitation |-> 385,
                         color |-> color, emission |-> img_md[kEmi],
                         fluor |-> img_md[kName]]]

\* def_channel: [raised, value]; for a fluorescence name whose index is none
\* of 0, 1, 2 the names color, lambda_exc and settings are never bound and the
\* construction of the record raises UnboundLocalError
def_channel(image_name, img_md) ==
    IF image_name = "ht"
    THEN [raised |-> "",
          value |-> [id |-> <<>>, name |-> "Holotomography", contrast_method |-> "Phase",
                     light_source |-> "LightSource:0", excitation |-> 532,
                     color |-> "", emission |-> "", fluor |-> ""]]
    ELSE IF image_name = "bf"
    THEN [raised |-> "",
          value |-> [id |-> <<>>, name |-> "Brightfield", contrast_method |-> "Brightfield",
                     light_source |-> "LightSource:0", excitation |-> 532,
                     color |-> "", emission |-> "", fluor |-> ""]]
    ELSE LET c == Char2(image_name)
             kEmi == "FLCH" \o c \o "_Fluorophore_Emission"
             kName == "FLCH" \o c \o "_Fluorophore_Name"
             color == CASE c = "0" -> "#0000FFFF" [] c = "1" -> "#008000FF"
                        [] c = "2" -> "#FF0000FF"
             lambda_exc == CASE c = "0" -> 385 [] c = "1" -> 470 [] c = "2" -> 570
             source == CASE c = "0" -> "LightSource:1" [] c = "1" -> "LightSource:2"
                         [] c = "2" -> "LightSource:3"
         IN  IF kEmi \notin DOMAIN img_md \/ kName \notin DOMAIN img_md
             THEN [raised |-> "KeyError", value |-> <<>>]
             ELSE IF c \notin {"0", "1", "2"}
             THEN [raised |-> "UnboundLocalError", value |-> <<>>]
             ELSE [raised |-> "",
                   value |-> [id |-> <<>>, name |-> "Fluorescence " \o color,
                              contrast_method |-> "Fluorescence",
                              light_source |-> source, excitation |-> lambda_exc,
                              color |-> color, emission |-> img_md[kEmi],
                              fluor |-> img_md[kName]]]

\* a slip: the whole height is subtracted, not half of it
stagelabel_whole_height(offset, fl_height) ==
    [name |-> "Fluorescence Image Z Shift", z |-> offset - fl_height]

\* def_ht_fl_shift_stagelabel, in hundredths of a millimetre:
\* np.round(offset - fl_height/2, 2) rounds a half to the even neighbour
def_ht_fl_shift_stagelabel(offset, fl_height) ==
    LET twice == 2 * offset - fl_height
        down == twice \div 2
    IN  [name |-> "Fluorescence Image Z Shift",
         z |-> IF twice % 2 = 0 THEN down
               ELSE IF down % 2 = 0 THEN down ELSE down + 1]

\* def_plane
def_plane(x_coord, y_coord, z_coord, delta_t, thec, thet, thez, exposure) ==
    [the_c |-> thec, the_t |-> thet, the_z |-> thez,
     position_x |-> x_coord, position_y |-> y_coord, position_z |-> z_coord,
     delta_t |-> delta_t, exposure_time |-> exposure]

\* the key/value pairs of a MapAnnotation: the listed config keys, copied
MapOf(md, keys) == [k \in keys |-> md[k]]

OverallKeys ==
    {"Medium_Name", "Medium_RI", "Immersion_RI", "Annotation", "SW Version", "Job_Title"}
HTKeys == {"mapping sign", "phase sign", "iteration", "Camera Shutter", "Camera Gain"}
BFKeys == {"BF_Camera_Shutter", "BF_Light_Intensity"}
FLKeys(c) ==
    {"FLCH" \o c \o "_Camera_Shutter", "FLCH" \o c \o "_Camera_Gain",
     "FLCH" \o c \o "_Light_Intensity"}
TilingKeys ==
    {"tile_img_id", "tile_total_images", "tile_number", "tile_row", "tile_column",
     "tile_total_timesteps", "tile_timestep", "tile_timestep_size"}

\* the condition of the holotomography annotation, with Python's short circuit:
\* "yes", "no", or the exception a lookup or int() raises
HTCondition(md) ==
    IF "Images HT3D" \notin DOMAIN md THEN "yes"
    ELSE IF ~IsNumeral(md["Images HT3D"]) THEN "ValueError"
    ELSE IF IntOf(md["Images HT3D"]) > 0 THEN "yes"
    ELSE IF "Images HT2D" \notin DOMAIN md THEN "KeyError"
    ELSE IF ~IsNumeral(md["Images HT2D"]) THEN "ValueError"
    ELSE IF IntOf(md["Images HT2D"]) > 0 THEN "yes" ELSE "no"

\* the condition of the brightfield annotation
BFCondition(md) ==
    IF "Images BF" \notin DOMAIN md THEN "no"
    ELSE IF ~IsNumeral(md["Images BF"]) THEN "ValueError"
    ELSE IF IntOf(md["Images BF"]) > 0 THEN "yes" ELSE "no"

\* the condition of the fluorescence annotations: the key tested for presence
\* is "Images FL", the key read is "Images FL3D"
FLCondition(md) ==
    IF "Images FL" \notin DOMAIN md THEN "yes"
    ELSE IF "Images FL3D" \notin DOMAIN md THEN "KeyError"
    ELSE IF ~IsNumeral(md["Images FL3D"]) THEN "ValueError"
    ELSE IF IntOf(md["Images FL3D"]) > 0 THEN "yes" ELSE "no"

\* a slip: any flag that is set counts as enabled
EnabledWhenSet(md, c) == md["FLCH" \o c \o "_Enable"] # ""
\* img_metadata["FLCH{}_Enable".format(i)] == "true"
Enabled(md, c) == md["FLCH" \o c \o "_Enable"] = "true"

\* the fluorescence annotations of sub-channels i, i+1, .., 2 (for i in range(3))
RECURSIVE FLAnnotations(_, _)
FLAnnotations(md, i) ==
    IF i > 2 THEN [raised |-> "", anns |-> <<>>]
    ELSE LET c == CASE i = 0 -> "0" [] i = 1 -> "1" [] i = 2 -> "2"
             rest == FLAnnotations(md, i + 1)
         IN  IF ("FLCH" \o c \o "_Enable") \notin DOMAIN md
             THEN [raised |-> "KeyError", anns |-> <<>>]
             ELSE IF Enabled(md, c)
             THEN IF ~(FLKeys(c) \subseteq DOMAIN md)
                  THEN [raised |-> "KeyError", anns |-> <<>>]
                  ELSE IF rest.raised # "" THEN rest
                  ELSE [raised |-> "",
                        anns |-> <<[id |-> AnnotationId(i + 3),
                                    namespace |-> "fluorescence",
                                    ms |-> MapOf(md, FLKeys(c))]>> \o rest.anns]
             ELSE rest

\* def_annotations: [raised, anns]
def_annotations(img_metadata, tiling_info) ==
    LET ht == HTCondition(img_metadata)
        bf == BFCondition(img_metadata)
        fl == FLCondition(img_metadata)
        ann_overall == <<[id |-> AnnotationId(0), namespace |-> "overall",
                          ms |-> MapOf(img_metadata, OverallKeys)]>>
        ann_ht == IF ht = "yes"
                  THEN <<[id |-> AnnotationId(1), namespace |-> "holotomography",
                          ms |-> MapOf(img_metadata, HTKeys)]>>
                  ELSE <<>>
        ann_bf == IF bf = "yes"
                  THEN <<[id |-> AnnotationId(2), namespace |-> "brightfield",
                          ms |-> MapOf(img_metadata, BFKeys)]>>
                  ELSE <<>>
        ann_fl == IF fl = "yes" THEN FLAnnotations(img_metadata, 0)
                  ELSE [raised |-> "", anns |-> <<>>]
        ann_tiling == IF DOMAIN tiling_info # {}
                      THEN <<[id |-> AnnotationId(6), namespace |-> "tiling",
                              ms |-> MapOf(tiling_info, TilingKeys)]>>
                      ELSE <<>>
        fail(e) == [raised |-> e, anns |-> <<>>]
    IN  IF ~(OverallKeys \subseteq DOMAIN img_metadata) THEN fail("KeyError")
        ELSE IF ht \notin {"yes", "no"} THEN fail(ht)
        ELSE IF ht = "yes" /\ ~(HTKeys \subseteq DOMAIN img_metadata) THEN fail("KeyError")
        ELSE IF bf \notin {"yes", "no"} THEN fail(bf)
        ELSE IF bf = "yes" /\ ~(BFKeys \subseteq DOMAIN img_metadata) THEN fail("KeyError")
        ELSE IF fl \notin {"yes", "no"} THEN fail(fl)
        ELSE IF ann_fl.raised # "" THEN fail(ann_fl.raised)
        ELSE IF DOMAIN tiling_info # {} /\ ~(TilingKeys \subseteq DOMAIN tiling_info)
             THEN fail("KeyError")
        ELSE [raised |-> "",
              anns |-> ann_overall \o ann_ht \o ann_bf \o ann_fl.anns \o ann_tiling]

(***************************************************************************)
(* numpy shapes.                                                           *)
(***************************************************************************)
\* np.array([block for item in group]): n blocks stacked on a new first axis
Stack(n, shape) == <<n>> \o shape
\* a[np.newaxis]
NewAxis(shape) == <<1>> \o shape
\* a[0]
First(shape) == Tail(shape)

\* img_formatted of one group: its shape, from the n datasets of shape raw
Reshape(name, n, raw) ==
    CASE name \in {"2DMIP", "2DFLMIP"} -> NewAxis(Stack(n, NewAxis(raw)))
      [] name \in {"2D", "3D", "3DFL"} -> NewAxis(Stack(n, raw))
      [] name = "BF" -> NewAxis(Stack(n, First(raw)))

(***************************************************************************)
(* build_ome_xml.                                                          *)
(***************************************************************************)
\* len_z: SizeZ and ResolutionZ are read in one try block, and a KeyError of
\* either gives len_z = 1
LenZ(attrs) ==
    IF "SizeZ" \in DOMAIN attrs /\ "ResolutionZ" \in DOMAIN attrs
    THEN attrs["SizeZ"] ELSE 1

\* a slip: the offset advances by one per image, not by its planes
NextOffsetPerImage(offset, n_planes) == offset + 1
\* the offset handed to the next image
NextOffset(offset, n_planes) == offset + n_planes

RequiredAttrs ==
    {"DataCount", "SizeX", "SizeY", "ResolutionX", "ResolutionY", "TimeInterval"}

\* build_ome_xml: [raised, image, offset]
build_ome_xml(attrs, offset, channels, description, experiment, experimenter, instrument, ht_fl_shift, data_type, ann_ids, planes) ==
    IF ~(RequiredAttrs \subseteq DOMAIN attrs)
    THEN [raised |-> "KeyError", image |-> <<>>, offset |-> offset]
    ELSE LET len_z == LenZ(attrs)
             len_t == attrs["DataCount"]
             len_c == 1
             n_planes == len_z * len_t * len_c
         IN  [raised |-> "",
              image |-> [name |-> description,
                         tiff_data |-> [plane_count |-> n_planes, ifd |-> offset],
                         size_c |-> len_c, size_t |-> len_t, size_z |-> len_z,
                         size_x |-> attrs["SizeX"], size_y |-> attrs["SizeY"],
                         type |-> data_type,
                         physical_size_z |->
                             IF "SizeZ" \in DOMAIN attrs /\ "ResolutionZ" \in DOMAIN attrs
                             THEN <<attrs["ResolutionZ"]>> ELSE <<>>,
                         time_increment |-> attrs["TimeInterval"],
                         channels |-> channels,
                         planes |-> planes,
                         experiment_ref |-> experiment,
                         experimenter_ref |-> experimenter,
                         instrument_ref |-> instrument,
                         annotation_refs |-> ann_ids,
                         stage_label |-> ht_fl_shift],
              offset |-> NextOffset(offset, n_planes)]

(***************************************************************************)
(* Inputs: the files of an acquisition folder.                             *)
(***************************************************************************)
\* the basic user config, as create_overall_config returns it
overall_md ==
    [exper_id |-> "Experimenter:0", eg_id |-> "ExperimenterGroup:0",
     instr_id |-> "Instrument:0", det_id |-> "Detector:0", obj_id |-> "Objective:0",
     light_source_id_ht |-> "LightSource:0", light_source_id_fl0 |-> "LightSource:1",
     light_source_id_fl1 |-> "LightSource:2", light_source_id_fl2 |-> "LightSource:3"]

\* the keys every per-run config of the model holds, with sample values
FixedConfigKeys ==
    OverallKeys \cup HTKeys \cup BFKeys \cup FLKeys("0") \cup FLKeys("1") \cup FLKeys("2")
    \cup {"FLCH0_Fluorophore_Emission", "FLCH1_Fluorophore_Emission",
          "FLCH2_Fluorophore_Emission", "FLCH0_Fluorophore_Name",
          "FLCH1_Fluorophore_Name", "FLCH2_Fluorophore_Name", "Serial", "NA", "M"}
FixedConfig == [k \in FixedConfigKeys |-> "v:" \o k]
\* position.txt
PositionConfig == [k \in {"x_rec", "y_rec", "z_rec", "c_rec"} |-> 0]

\* a dictionary of the keys whose value is not "" (an absent key)
Present(d) == [k \in {x \in DOMAIN d : d[x] # ""} |-> d[k]]

CountValues == {"", "0", "1"}
FlagValues == {"true", "false"}

\* the per-run config with the given image counts ("" for a key the file lacks)
\* and fluorescence flags, as read_image_config merges it
Config(ht3d, ht2d, bf, fl, fl3d, en0, en1, en2) ==
    Update(Update(FixedConfig,
                  Present([k \in {"Images HT3D", "Images HT2D", "Images BF", "Images FL",
                                  "Images FL3D", "FLCH0_Enable", "FLCH1_Enable",
                                  "FLCH2_Enable"} |->
                           CASE k = "Images HT3D" -> ht3d [] k = "Images HT2D" -> ht2d
                             [] k = "Images BF" -> bf [] k = "Images FL" -> fl
                             [] k = "Images FL3D" -> fl3d [] k = "FLCH0_Enable" -> en0
                             [] k = "FLCH1_Enable" -> en1 [] k = "FLCH2_Enable" -> en2])),
           PositionConfig)

\* every combination of image counts and flags
AnnConfigs ==
    {Config(ht3d, ht2d, bf, fl, fl3d, en0, en1, en2) :
        ht3d \in CountValues, ht2d \in CountValues, bf \in CountValues,
        fl \in CountValues, fl3d \in CountValues,
        en0 \in FlagValues, en1 \in FlagValues, en2 \in FlagValues}

\* the configs the folders of a conversion run hold: one of an old TomoStudio
\* (no image counts), one with counts
ImageConfigs ==
    {Config("", "", "", "", "", "true", "true", "true"),
     Config("1", "1", "1", "", "1", "true", "false", "true")}

\* read_tiling_info.convert_to_float: an int when the text is a numeral, else
\* the text
convert_to_float(item) == IF IsNumeral(item) THEN IntOf(item) ELSE item

\* tiling_info.txt: not found, or the key/text pairs of its lines
NoTilingFile == [found |-> FALSE, lines |-> EmptyDict]
EmptyTilingFile == [found |-> TRUE, lines |-> EmptyDict]
FullTilingFile ==
    [found |-> TRUE,
     lines |-> [k \in TilingKeys |->
                  CASE k = "tile_timestep" -> StrOf(TileTimestepValue)
                    [] k = "tile_timestep_size" -> StrOf(TileTimestepSizeValue)
                    [] OTHER -> "1"]]
PartialTilingFile ==
    [found |-> TRUE, lines |-> [k \in {"tile_img_id"} |-> "1"]]
TilingFiles == {NoTilingFile, EmptyTilingFile, FullTilingFile, PartialTilingFile}

\* read_tiling_info
read_tiling_info(file) ==
    IF file.found
    THEN [k \in DOMAIN file.lines |-> convert_to_float(file.lines[k])]
    ELSE EmptyDict

\* the attributes and datasets of one group: a volume group (3D, 3DFL) has
\* SizeZ, a planar group has neither SizeZ nor ResolutionZ; n datasets per
\* group (per sub-channel of a fluorescence group), each of shape raw
CommonAttrs ==
    [k \in {"SizeX", "SizeY", "ResolutionX", "ResolutionY", "TimeInterval"} |->
        CASE k = "SizeX" -> RawX [] k = "SizeY" -> RawY
          [] k = "TimeInterval" -> TimeIntervalValue [] OTHER -> 10]
\* the dictionary {k: v} when cond holds, the empty one otherwise
Opt(cond, k, v) == IF cond THEN [x \in {k} |-> v] ELSE EmptyDict
Node(name, z, n, hasResZ, hasCount) ==
    [attrs |->
        Update(Update(Update(Update(CommonAttrs,
            Opt(name \in {"3D", "3DFL"}, "SizeZ", z)),
            Opt(hasResZ, "ResolutionZ", 25)),
            Opt(hasCount, "DataCount", n)),
            Opt(name = "3DFL", "OffsetZ", 120)),
     n |-> n,
     raw |-> CASE name \in {"3D", "3DFL"} -> <<z, RawY, RawX>>
               [] name = "BF" -> <<3, RawY, RawX>>
               [] OTHER -> <<RawY, RawX>>]
Nodes(name) ==
    IF name \in {"3D", "3DFL"}
    THEN {Node(name, z, n, r, c) :
            z \in {MaxZ}, n \in {1, MaxT}, r \in BOOLEAN, c \in BOOLEAN}
    ELSE {Node(name, 1, n, FALSE, c) : n \in {1, MaxT}, c \in BOOLEAN}

(***************************************************************************)
(* State.                                                                  *)
(***************************************************************************)
VARIABLES
    entry,            \* the CLI command: "parse" or "parse_multiple"
    basic_config_dict, \* the basic user config, passed on as overall_md
    config_dat,       \* the lines of config.dat, for read_image_config on its own
    pc,               \* the statement the program is at
    output_xml,       \* the flags of the command
    include_mip,
    folders,          \* transform_folder: the number of subfolders listed
    folder,           \* the folder being converted, 1..folders
    attempted,        \* the folders transform_tcf was called on, in order
    failed,           \* the folders whose exception transform_folder caught
    exception,        \* the exception propagating out of transform_tcf, "" if none
    tiling_file,      \* the tiling_info.txt of the folder
    exp_config_dict,  \* transform_tcf's locals
    tiling_dict,
    ome_img_md,
    dat,              \* the container: [keys, sub_keys, groups], read on access
    open_files,       \* the folders whose container is open
    keys_to_loop,
    i_chan,
    fl_mip_counter,
    fl_3d_counter,
    plane_offset,
    img_ome_xmls,
    imgs,
    ome_xmls,         \* the document, <<>> before it is assembled
    emitted,          \* per image built: the loop index, group and sub-channel
    sink_calls,       \* the folders OmeTiffWriter.save was called for
    files             \* the files written: <<folder, suffix>>

globals == <<entry, basic_config_dict, config_dat, output_xml, include_mip, folders, attempted,
             failed, open_files, sink_calls, files>>
locals == <<tiling_file, exp_config_dict, tiling_dict, ome_img_md, dat, keys_to_loop,
            i_chan, fl_mip_counter, fl_3d_counter, plane_offset, img_ome_xmls, imgs,
            ome_xmls, emitted>>
vars == <<pc, folder, exception, globals, locals>>

NoContainer == [keys |-> <<>>, sub_keys |-> EmptyDict, groups |-> EmptyDict]

\* the locals of a call of transform_tcf before its first statement
FreshLocals ==
    /\ tiling_file = NoTilingFile
    /\ exp_config_dict = EmptyDict
    /\ tiling_dict = EmptyDict
    /\ ome_img_md = EmptyDict
    /\ dat = NoContainer
    /\ keys_to_loop = <<>>
    /\ i_chan = 0
    /\ fl_mip_counter = 0
    /\ fl_3d_counter = 0
    /\ plane_offset = 0
    /\ img_ome_xmls = <<>>
    /\ imgs = <<>>
    /\ ome_xmls = <<>>
    /\ emitted = <<>>

NoOutput ==
    /\ failed = <<>>
    /\ exception = ""
    /\ open_files = {}
    /\ sink_calls = <<>>
    /\ files = {}

\* cli.parse: transform_tcf on one folder
Init ==
    /\ entry = "parse"
    /\ basic_config_dict = overall_md
    /\ config_dat = <<>>
    /\ pc = "read_image_config"
    /\ output_xml \in BOOLEAN
    /\ include_mip \in BOOLEAN
    /\ folders = 1
    /\ folder = 1
    /\ attempted = <<1>>
    /\ NoOutput
    /\ FreshLocals

\* cli.parse_multiple: transform_folder on a top folder
InitBatch ==
    /\ entry = "parse_multiple"
    /\ basic_config_dict = overall_md
    /\ config_dat = <<>>
    /\ pc = "listdir"
    /\ output_xml \in BOOLEAN
    /\ include_mip \in BOOLEAN
    /\ folders = 0
    /\ folder = 0
    /\ attempted = <<>>
    /\ NoOutput
    /\ FreshLocals

(***************************************************************************)
(* transform_tcf.                                                          *)
(***************************************************************************)
Raise(e) == exception' = e /\ pc' = "raised"

\* read_image_config(folder): config.dat, JobParameter.tcp and position.txt
\* are read, or the exception of a missing file is wrapped and raised
ReadImageConfig ==
    /\ pc = "read_image_config"
    /\ \E readable \in BOOLEAN :
          IF readable
          THEN \E cfg \in ImageConfigs :
                 /\ exp_config_dict' = cfg
                 /\ pc' = "read_tiling_info"
                 /\ UNCHANGED exception
          ELSE /\ Raise("Skipping folder")
               /\ UNCHANGED exp_config_dict
    /\ UNCHANGED <<folder, globals, tiling_file, tiling_dict, ome_img_md, dat,
                   keys_to_loop, i_chan, fl_mip_counter, fl_3d_counter, plane_offset,
                   img_ome_xmls, imgs, ome_xmls, emitted>>

\* tiling_dict = read_tiling_info(folder)
ReadTilingInfo ==
    /\ pc = "read_tiling_info"
    /\ \E file \in TilingFiles :
          /\ tiling_file' = file
          /\ tiling_dict' = read_tiling_info(file)
    /\ pc' = "define_image_metadata"
    /\ UNCHANGED <<folder, exception, globals, exp_config_dict, ome_img_md, dat,
                   keys_to_loop, i_chan, fl_mip_counter, fl_3d_counter, plane_offset,
                   img_ome_xmls, imgs, ome_xmls, emitted>>

\* define_image_metadata: [raised, value]
define_image_metadata(overall_config_dict, img_config_dict, tiling) ==
    LET fl0 == def_channel("fl0", img_config_dict)
        fl1 == def_channel("fl1", img_config_dict)
        fl2 == def_channel("fl2", img_config_dict)
        anns == def_annotations(img_config_dict, tiling)
        fail(e) == [raised |-> e, value |-> EmptyDict]
    IN  IF ~({"Job_Title", "Serial", "NA", "M"} \subseteq DOMAIN img_config_dict)
        THEN fail("KeyError")
        ELSE IF fl0.raised # "" THEN fail(fl0.raised)
        ELSE IF fl1.raised # "" THEN fail(fl1.raised)
        ELSE IF fl2.raised # "" THEN fail(fl2.raised)
        ELSE IF anns.raised # "" THEN fail(anns.raised)
        ELSE [raised |-> "",
              value |->
                [exp |-> [id |-> "Experiment:0",
                          description |-> img_config_dict["Job_Title"],
                          experimenter_ref |-> overall_config_dict.exper_id],
                 lasers |-> <<def_light_source(overall_config_dict.light_source_id_ht)>>,
                 leds |-> <<def_light_source(overall_config_dict.light_source_id_fl0),
                            def_light_source(overall_config_dict.light_source_id_fl1),
                            def_light_source(overall_config_dict.light_source_id_fl2)>>,
                 instr |-> [id |-> overall_config_dict.instr_id],
                 channel_ht |-> def_channel("ht", img_config_dict).value,
                 channel_bf |-> def_channel("bf", img_config_dict).value,
                 channel_fl0 |-> fl0.value,
                 channel_fl1 |-> fl1.value,
                 channel_fl2 |-> fl2.value,
                 anns |-> anns.anns]]

DefineImageMetadata ==
    /\ pc = "define_image_metadata"
    /\ LET md == define_image_metadata(basic_config_dict, exp_config_dict, tiling_dict)
       IN  IF md.raised # ""
           THEN Raise(md.raised) /\ UNCHANGED ome_img_md
           ELSE /\ ome_img_md' = md.value
                /\ pc' = "open"
                /\ UNCHANGED exception
    /\ UNCHANGED <<folder, globals, tiling_file, exp_config_dict, tiling_dict, dat,
                   keys_to_loop, i_chan, fl_mip_counter, fl_3d_counter, plane_offset,
                   img_ome_xmls, imgs, ome_xmls, emitted>>

\* the most groups a container of this run holds: the containers of a batch
\* hold one group at most, the batch being about the folders
GroupLimit == IF entry = "parse_multiple" THEN 1 ELSE MaxGroups

\* dat = h5py.File(..., "r"): the container is opened, and never closed by the
\* code; what the "Data" root lists is fixed here, the groups are read on access
OpenContainer ==
    /\ pc = "open"
    /\ \E found \in BOOLEAN :
          IF found
          THEN /\ open_files' = open_files \cup {folder}
               /\ \E S \in {T \in SUBSET Range(NameOrder) : Cardinality(T) <= GroupLimit} :
                  \E sub \in [S \cap FLNames -> SUBSET Range(ChannelOrder)] :
                     dat' = [keys |-> Listing(NameOrder, S),
                             sub_keys |-> [g \in S \cap FLNames |->
                                             Listing(ChannelOrder, sub[g])],
                             groups |-> EmptyDict]
               /\ pc' = "resolve"
               /\ UNCHANGED exception
          ELSE /\ Raise("FileNotFoundError")
               /\ UNCHANGED <<open_files, dat>>
    /\ UNCHANGED <<folder, entry, basic_config_dict, config_dat, output_xml, include_mip, folders, attempted, failed,
                   sink_calls, files, tiling_file, exp_config_dict, tiling_dict,
                   ome_img_md, keys_to_loop, i_chan, fl_mip_counter, fl_3d_counter,
                   plane_offset, img_ome_xmls, imgs, ome_xmls, emitted>>

\* a slip: only the top-level projection group is recognised
HasMIPTopLevelOnly(item) == item = "2DMIP"
\* "MIP" in item, for the names of the model
HasMIP(item) == item \in {"2DMIP", "2DFLMIP"}

\* the extension of the key list by the further sub-channels of group g
Extend(keys, sub_keys, g) ==
    IF g \in Range(keys) THEN keys \o Repeat(Len(sub_keys[g]) - 1, g) ELSE keys

\* keys_to_loop: the listed keys, without the MIP ones when they are excluded,
\* then one more entry per further sub-channel of each fluorescence group
KeysToLoop(keys, sub_keys, mip) ==
    LET kept == IF mip THEN keys ELSE SelectSeq(keys, LAMBDA k : ~HasMIP(k))
    IN  Extend(Extend(kept, sub_keys, "2DFLMIP"), sub_keys, "3DFL")

\* a slip: the plan is resolved and the writer called at once, without the loop
ResolveThenSave ==
    /\ pc = "resolve"
    /\ keys_to_loop' = KeysToLoop(dat.keys, dat.sub_keys, include_mip)
    /\ img_ome_xmls' = <<>>
    /\ imgs' = <<>>
    /\ plane_offset' = 0
    /\ fl_mip_counter' = 0
    /\ fl_3d_counter' = 0
    /\ i_chan' = 0
    /\ pc' = "save"
    /\ emitted' = <<>>
    /\ UNCHANGED <<folder, exception, globals, tiling_file, exp_config_dict, tiling_dict,
                   ome_img_md, dat, ome_xmls>>

ResolveModalities ==
    /\ pc = "resolve"
    /\ keys_to_loop' = KeysToLoop(dat.keys, dat.sub_keys, include_mip)
    /\ img_ome_xmls' = <<>>
    /\ imgs' = <<>>
    /\ plane_offset' = 0
    /\ fl_mip_counter' = 0
    /\ fl_3d_counter' = 0
    /\ i_chan' = 0
    /\ pc' = "loop"
    /\ emitted' = <<>>
    /\ UNCHANGED <<folder, exception, globals, tiling_file, exp_config_dict, tiling_dict,
                   ome_img_md, dat, ome_xmls>>

\* the try block of the plane list finds its two tiling keys
Tiled(tiling) == {"tile_timestep", "tile_timestep_size"} \subseteq DOMAIN tiling

\* a slip: the tile's time step is taken without its duration
TiledDeltaTStepOnly(tiling) == tiling["tile_timestep"]
\* delta_t of a plane: from the tiling metadata, or from the time index j
TiledDeltaT(tiling) == tiling["tile_timestep"] * tiling["tile_timestep_size"]
UntiledDeltaT(j_time, attrs) == j_time * attrs["TimeInterval"]

\* the plane list of the try block: one plane per index of axis 2 of the array
TiledPlanes(shape, tiling, cfg, chan, exposure) ==
    [p \in 1..shape[3] |->
        def_plane(cfg["x_rec"], cfg["y_rec"], cfg["z_rec"], TiledDeltaT(tiling),
                  chan, tiling["tile_timestep"], p - 1, exposure)]

\* the plane list of the except block: np.ndindex over axes 1 and 2 of the array
UntiledPlanes(shape, attrs, cfg, chan, exposure) ==
    [p \in 1..(shape[2] * shape[3]) |->
        LET j_time == (p - 1) \div shape[3]
            k_plane == (p - 1) % shape[3]
        IN  def_plane(cfg["x_rec"], cfg["y_rec"], cfg["z_rec"],
                      UntiledDeltaT(j_time, attrs), chan, j_time, k_plane, exposure)]

\* a slip: the tiling annotation is never referenced
AnnRefsWithoutTiling(ann_ref, tiling) == <<0, ann_ref>>
\* ann_refs of an image
AnnRefs(ann_ref, tiling) ==
    IF Tiled(tiling) THEN <<0, ann_ref, 6>> ELSE <<0, ann_ref>>

\* the number written into the channel id of the image built at index i
ChannelNumber(i) == i

\* the group read at dat["Data"][name]: as read before, or read now
NodesAt(name) ==
    IF name \in DOMAIN dat.groups THEN {dat.groups[name]} ELSE Nodes(name)

\* one iteration of the loop for a known group: [raised, image, shape, offset]
LoopBody(name, node) ==
    LET attrs == node.attrs
        counter == IF name = "2DFLMIP" THEN fl_mip_counter ELSE fl_3d_counter
        listing == IF name \in FLNames THEN dat.sub_keys[name] ELSE <<>>
        indexError == name \in FLNames /\ counter >= Len(listing)
        channel == IF name \in FLNames /\ ~indexError THEN listing[counter + 1] ELSE "none"
        c == Char2(channel)
        chanKey == CASE name \in {"2DMIP", "2D", "3D"} -> "channel_ht"
                     [] name = "BF" -> "channel_bf"
                     [] OTHER -> "channel_fl" \o c
        description ==
            CASE name = "2DMIP" -> "2D Holotomography Maximum Intensity Projection"
              [] name = "2D" -> "2D Phasemap"
              [] name = "BF" -> "2D Brightfield"
              [] name = "3D" -> "3D Holotomography"
              [] name = "2DFLMIP" ->
                    "2D " \o ome_img_md[chanKey].name \o " Maximum Intensity Projection"
              [] name = "3DFL" -> "3D " \o ome_img_md[chanKey].name
        data_type == CASE name = "2D" -> "float" [] name = "BF" -> "uint8"
                       [] OTHER -> "uint16"
        img_formatted == Reshape(name, node.n, node.raw)
        ann_ref == CASE name \in {"2DMIP", "2D", "3D"} -> 1
                     [] name = "BF" -> 2
                     [] OTHER -> 3 + IntOf(c)
        exposureKey == CASE name \in {"2DMIP", "2D", "3D"} -> "Camera Shutter"
                         [] name = "BF" -> "BF_Camera_Shutter"
                         [] OTHER -> "FLCH" \o c \o "_Camera_Shutter"
        stagelabel ==
            IF name = "3DFL"
            THEN <<def_ht_fl_shift_stagelabel(attrs["OffsetZ"],
                                              attrs["ResolutionZ"] * attrs["SizeZ"])>>
            ELSE <<>>
        exposure == exp_config_dict[exposureKey]
        channels == <<[ome_img_md[chanKey] EXCEPT !.id = ChannelId(ChannelNumber(i_chan))]>>
        planes == IF Tiled(tiling_dict)
                  THEN TiledPlanes(img_formatted, tiling_dict, exp_config_dict,
                                   i_chan, exposure)
                  ELSE UntiledPlanes(img_formatted, attrs, exp_config_dict,
                                     i_chan, exposure)
        ann_refs == AnnRefs(ann_ref, tiling_dict)
        built == build_ome_xml(attrs, plane_offset, channels, description,
                               ome_img_md.exp.id, basic_config_dict.exper_id,
                               ome_img_md.instr.id, stagelabel, data_type,
                               [i \in 1..Len(ann_refs) |-> AnnotationId(ann_refs[i])],
                               planes)
        fail(e) == [raised |-> e, image |-> <<>>, shape |-> <<>>, offset |-> plane_offset,
                    channel |-> channel]
    IN  IF indexError THEN fail("IndexError")
        ELSE IF chanKey \notin DOMAIN ome_img_md THEN fail("KeyError")
        ELSE IF name = "3DFL"
                /\ ~({"OffsetZ", "ResolutionZ", "SizeZ"} \subseteq DOMAIN attrs)
             THEN fail("KeyError")
        ELSE IF exposureKey \notin DOMAIN exp_config_dict THEN fail("KeyError")
        ELSE IF ~Tiled(tiling_dict) /\ "TimeInterval" \notin DOMAIN attrs
             THEN fail("KeyError")
        ELSE IF built.raised # "" THEN fail("Exception during xml building")
        ELSE [raised |-> "", image |-> built.image, shape |-> img_formatted,
              offset |-> built.offset, channel |-> channel]

InLoop == pc = "loop" /\ i_chan < Len(keys_to_loop)
\* name of enumerate(keys_to_loop) at index i_chan
CurrentName == keys_to_loop[i_chan + 1]

\* a slip: an unknown group is an error
SkipUnknownRaises ==
    /\ InLoop
    /\ CurrentName \notin KnownNames
    /\ Raise("ValueError")
    /\ UNCHANGED <<folder, globals, tiling_file, exp_config_dict, tiling_dict,
                   ome_img_md, dat, keys_to_loop, i_chan, fl_mip_counter, fl_3d_counter,
                   plane_offset, img_ome_xmls, imgs, ome_xmls, emitted>>

\* the else branch of the loop: an unknown group is logged and skipped
SkipUnknown ==
    /\ InLoop
    /\ CurrentName \notin KnownNames
    /\ i_chan' = i_chan + 1
    /\ UNCHANGED <<pc, folder, exception, globals, tiling_file, exp_config_dict,
                   tiling_dict, ome_img_md, dat, keys_to_loop, fl_mip_counter,
                   fl_3d_counter, plane_offset, img_ome_xmls, imgs, ome_xmls, emitted>>

\* a slip: the exception of an iteration is recorded and the loop goes on to
\* the next entry
IterationSkipsOnError ==
    /\ InLoop
    /\ CurrentName \in KnownNames
    /\ \E node \in NodesAt(CurrentName) :
          LET r == LoopBody(CurrentName, node)
          IN  /\ r.raised # ""
              /\ exception' = r.raised
    /\ i_chan' = i_chan + 1
    /\ UNCHANGED <<pc, folder, globals, tiling_file, exp_config_dict, tiling_dict,
                   ome_img_md, dat, keys_to_loop, fl_mip_counter, fl_3d_counter,
                   plane_offset, img_ome_xmls, imgs, ome_xmls, emitted>>

\* an iteration that raises: before the image is built, or in build_ome_xml
\* (wrapped as "Exception during xml building"); transform_tcf ends here
IterationRaises ==
    /\ InLoop
    /\ CurrentName \in KnownNames
    /\ \E node \in NodesAt(CurrentName) :
          LET r == LoopBody(CurrentName, node)
          IN  /\ r.raised # ""
              /\ Raise(r.raised)
    /\ UNCHANGED <<folder, globals, tiling_file, exp_config_dict, tiling_dict,
                   ome_img_md, dat, keys_to_loop, i_chan, fl_mip_counter, fl_3d_counter,
                   plane_offset, img_ome_xmls, imgs, ome_xmls, emitted>>

\* an iteration that emits an image
EmitImage ==
    /\ InLoop
    /\ CurrentName \in KnownNames
    /\ \E node \in NodesAt(CurrentName) :
          LET r == LoopBody(CurrentName, node)
          IN  /\ r.raised = ""
              /\ img_ome_xmls' = Append(img_ome_xmls, r.image)
              /\ imgs' = Append(imgs, r.shape)
              /\ plane_offset' = r.offset
              /\ emitted' = Append(emitted, [i |-> i_chan, name |-> CurrentName,
                                             channel |-> r.channel])
              /\ dat' = [dat EXCEPT !.groups = Update(@, Opt(TRUE, CurrentName, node))]
    /\ fl_mip_counter' = IF CurrentName = "2DFLMIP" THEN fl_mip_counter + 1
                         ELSE fl_mip_counter
    /\ fl_3d_counter' = IF CurrentName = "3DFL" THEN fl_3d_counter + 1 ELSE fl_3d_counter
    /\ i_chan' = i_chan + 1
    /\ UNCHANGED <<pc, folder, exception, globals, tiling_file, exp_config_dict,
                   tiling_dict, ome_img_md, keys_to_loop, ome_xmls>>

\* a slip: the document lists the instrument once per image
AssembleInstrumentPerImage ==
    /\ pc = "loop"
    /\ i_chan = Len(keys_to_loop)
    /\ ome_xmls' = <<[images |-> img_ome_xmls,
                      experiments |-> <<ome_img_md.exp>>,
                      experimenters |-> <<basic_config_dict.exper_id>>,
                      experimenter_groups |-> <<basic_config_dict.eg_id>>,
                      instruments |-> [k \in 1..Len(img_ome_xmls) |-> ome_img_md.instr],
                      structured_annotations |-> ome_img_md.anns]>>
    /\ pc' = "save"
    /\ UNCHANGED <<folder, exception, globals, tiling_file, exp_config_dict, tiling_dict,
                   ome_img_md, dat, keys_to_loop, i_chan, fl_mip_counter, fl_3d_counter,
                   plane_offset, img_ome_xmls, imgs, emitted>>

\* ome_xmls = model.OME(...), after the loop
AssembleDocument ==
    /\ pc = "loop"
    /\ i_chan = Len(keys_to_loop)
    /\ ome_xmls' = <<[images |-> img_ome_xmls,
                      experiments |-> <<ome_img_md.exp>>,
                      experimenters |-> <<basic_config_dict.exper_id>>,
                      experimenter_groups |-> <<basic_config_dict.eg_id>>,
                      instruments |-> <<ome_img_md.instr>>,
                      structured_annotations |-> ome_img_md.anns]>>
    /\ pc' = "save"
    /\ UNCHANGED <<folder, exception, globals, tiling_file, exp_config_dict, tiling_dict,
                   ome_img_md, dat, keys_to_loop, i_chan, fl_mip_counter, fl_3d_counter,
                   plane_offset, img_ome_xmls, imgs, emitted>>

\* where control goes when transform_tcf returns
AfterReturn == IF entry = "parse_multiple" THEN "for_folder" ELSE "exit"

\* OmeTiffWriter.save(imgs, ..., ome_xml=ome_xmls), then the XML sidecar when
\* output_xml is set; the writer may raise
WriteOutputs ==
    /\ pc = "save"
    /\ sink_calls' = Append(sink_calls, folder)
    /\ \E written \in BOOLEAN :
          IF written
          THEN /\ files' = files \cup {<<folder, ".ome.tiff">>}
                              \cup (IF output_xml THEN {<<folder, ".ome.xml">>} ELSE {})
               /\ pc' = AfterReturn
               /\ UNCHANGED exception
          ELSE /\ Raise("SinkWriteError")
               /\ UNCHANGED files
    /\ UNCHANGED <<folder, entry, basic_config_dict, config_dat, output_xml, include_mip, folders, attempted, failed,
                   open_files, locals>>

(***************************************************************************)
(* transform_folder.                                                       *)
(***************************************************************************)
\* folders = [d for d in listdir(top_folder) if isdir(...)]
ListFolders ==
    /\ pc = "listdir"
    /\ \E n \in 0..MaxFolders : folders' = n
    /\ pc' = "for_folder"
    /\ UNCHANGED <<folder, exception, entry, basic_config_dict, config_dat, output_xml, include_mip, attempted, failed,
                   open_files, sink_calls, files, locals>>

\* for folder in folders: transform_tcf is called on the next folder
NextFolder ==
    /\ pc = "for_folder"
    /\ folder < folders
    /\ folder' = folder + 1
    /\ attempted' = Append(attempted, folder + 1)
    /\ pc' = "read_image_config"
    /\ tiling_file' = NoTilingFile
    /\ exp_config_dict' = EmptyDict
    /\ tiling_dict' = EmptyDict
    /\ ome_img_md' = EmptyDict
    /\ dat' = NoContainer
    /\ keys_to_loop' = <<>>
    /\ i_chan' = 0
    /\ fl_mip_counter' = 0
    /\ fl_3d_counter' = 0
    /\ plane_offset' = 0
    /\ img_ome_xmls' = <<>>
    /\ imgs' = <<>>
    /\ ome_xmls' = <<>>
    /\ emitted' = <<>>
    /\ UNCHANGED <<exception, entry, basic_config_dict, config_dat, output_xml, include_mip, folders, failed,
                   open_files, sink_calls, files>>

\* a slip: the exception of a folder ends the for loop
CatchAndStop ==
    /\ pc = "raised"
    /\ entry = "parse_multiple"
    /\ failed' = Append(failed, folder)
    /\ exception' = ""
    /\ pc' = "exit"
    /\ UNCHANGED <<folder, entry, basic_config_dict, config_dat, output_xml, include_mip, folders, attempted,
                   open_files, sink_calls, files, locals>>

\* except Exception as e: the exception is printed and logged
CatchException ==
    /\ pc = "raised"
    /\ entry = "parse_multiple"
    /\ failed' = Append(failed, folder)
    /\ exception' = ""
    /\ pc' = "for_folder"
    /\ UNCHANGED <<folder, entry, basic_config_dict, config_dat, output_xml, include_mip, folders, attempted,
                   open_files, sink_calls, files, locals>>

\* the for loop ends
EndBatch ==
    /\ pc = "for_folder"
    /\ folder = folders
    /\ pc' = "exit"
    /\ UNCHANGED <<folder, exception, globals, locals>>

Convert ==
    \/ ReadImageConfig
    \/ ReadTilingInfo
    \/ DefineImageMetadata
    \/ OpenContainer
    \/ ResolveModalities
    \/ SkipUnknown
    \/ IterationRaises
    \/ EmitImage
    \/ AssembleDocument
    \/ WriteOutputs

Next == Convert

NextBatch ==
    \/ Convert
    \/ ListFolders
    \/ NextFolder
    \/ CatchException
    \/ EndBatch

Spec == Init /\ [][Next]_vars

SpecBatch == InitBatch /\ [][NextBatch]_vars

(***************************************************************************)
(* def_annotations on its own, over every per-run config and tiling file.  *)
(***************************************************************************)
InitAnn ==
    /\ entry = "def_annotations"
    /\ basic_config_dict = overall_md
    /\ config_dat = <<>>
    /\ pc = "def_annotations"
    /\ output_xml = FALSE
    /\ include_mip = TRUE
    /\ folders = 1
    /\ folder = 1
    /\ attempted = <<>>
    /\ NoOutput
    /\ tiling_file \in TilingFiles
    /\ exp_config_dict \in AnnConfigs
    /\ tiling_dict = read_tiling_info(tiling_file)
    /\ ome_img_md = EmptyDict
    /\ dat = NoContainer
    /\ keys_to_loop = <<>>
    /\ i_chan = 0
    /\ fl_mip_counter = 0
    /\ fl_3d_counter = 0
    /\ plane_offset = 0
    /\ img_ome_xmls = <<>>
    /\ imgs = <<>>
    /\ ome_xmls = <<>>
    /\ emitted = <<>>

\* img_metadata["anns"] = def_annotations(img_config_dict, tiling_dict)
DefAnnotations ==
    /\ pc = "def_annotations"
    /\ LET r == def_annotations(exp_config_dict, tiling_dict)
       IN  /\ ome_img_md' = [anns |-> r.anns]
           /\ exception' = r.raised
    /\ pc' = "exit"
    /\ UNCHANGED <<folder, globals, tiling_file, exp_config_dict, tiling_dict, dat,
                   keys_to_loop, i_chan, fl_mip_counter, fl_3d_counter, plane_offset,
                   img_ome_xmls, imgs, ome_xmls, emitted>>

NextAnn == DefAnnotations

SpecAnn == InitAnn /\ [][NextAnn]_vars

(***************************************************************************)
(* def_channel on its own, over the image names define_image_metadata      *)
(* passes and configs of every fluorophore content.                        *)
(***************************************************************************)
\* the emission wavelengths and fluorophore names a config may give ("" for a
\* key the file lacks)
EmissionValues == {"", "461", "520"}
FluorValues == {"DAPI", "GFP"}

\* a config may also hold the keys of a fourth sub-channel, which
\* FixedConfig does not have
ChannelConfigs ==
    {Update(Update(FixedConfig,
            Present([k \in {"FLCH0_Fluorophore_Emission", "FLCH1_Fluorophore_Emission",
                            "FLCH2_Fluorophore_Emission", "FLCH0_Fluorophore_Name",
                            "FLCH1_Fluorophore_Name", "FLCH2_Fluorophore_Name"} |->
                     CASE k = "FLCH0_Fluorophore_Emission" -> e0
                       [] k = "FLCH1_Fluorophore_Emission" -> e1
                       [] k = "FLCH2_Fluorophore_Emission" -> e2
                       [] k = "FLCH0_Fluorophore_Name" -> f0
                       [] k = "FLCH1_Fluorophore_Name" -> f1
                       [] k = "FLCH2_Fluorophore_Name" -> f2])),
            Update(Opt(e3 # "", "FLCH3_Fluorophore_Emission", e3),
                   Opt(f3, "FLCH3_Fluorophore_Name", "Cy5"))) :
        e0 \in EmissionValues, e1 \in EmissionValues, e2 \in EmissionValues,
        f0 \in FluorValues, f1 \in FluorValues, f2 \in FluorValues,
        e3 \in {"", "670"}, f3 \in BOOLEAN}

\* the image names def_channel is asked for: those define_image_metadata
\* passes, and the name of a fourth fluorescence sub-channel
ChannelImageNames == {"ht", "bf", "fl0", "fl1", "fl2", "fl3"}

InitChannel ==
    /\ entry = "def_channel"
    /\ basic_config_dict = overall_md
    /\ config_dat = <<>>
    /\ pc = "def_channel"
    /\ output_xml = FALSE
    /\ include_mip = TRUE
    /\ folders = 1
    /\ folder = 1
    /\ attempted = <<>>
    /\ NoOutput
    /\ tiling_file = NoTilingFile
    /\ exp_config_dict \in ChannelConfigs
    /\ tiling_dict = EmptyDict
    /\ ome_img_md = EmptyDict
    /\ dat = NoContainer
    /\ keys_to_loop = <<>>
    /\ i_chan = 0
    /\ fl_mip_counter = 0
    /\ fl_3d_counter = 0
    /\ plane_offset = 0
    /\ img_ome_xmls = <<>>
    /\ imgs = <<>>
    /\ ome_xmls = <<>>
    /\ emitted = <<>>

\* img_metadata["channel_<name>"] = def_channel(<name>, img_config_dict)
DefChannel ==
    /\ pc = "def_channel"
    /\ \E image_name \in ChannelImageNames :
          LET r == def_channel(image_name, exp_config_dict)
          IN  /\ ome_img_md' = IF r.raised = ""
                               THEN [k \in {"channel_" \o image_name} |-> r.value]
                               ELSE EmptyDict
              /\ exception' = r.raised
    /\ pc' = "exit"
    /\ UNCHANGED <<folder, globals, tiling_file, exp_config_dict, tiling_dict, dat,
                   keys_to_loop, i_chan, fl_mip_counter, fl_3d_counter, plane_offset,
                   img_ome_xmls, imgs, ome_xmls, emitted>>

NextChannel == DefChannel

SpecChannel == InitChannel /\ [][NextChannel]_vars

(***************************************************************************)
(* The light sources of define_image_metadata on their own, over basic     *)
(* configs of every choice of light-source identifiers.                    *)
(***************************************************************************)
\* the identifiers a basic config file may give its light sources
LightSourceIds == {"LightSource:0", "LightSource:1", "LightSource:2", "LightSource:3"}

\* the basic configs: the user writes the four light-source identifiers
BasicConfigs ==
    {[overall_md EXCEPT !.light_source_id_ht = ht, !.light_source_id_fl0 = fl0,
                        !.light_source_id_fl1 = fl1, !.light_source_id_fl2 = fl2] :
        ht \in LightSourceIds, fl0 \in LightSourceIds,
        fl1 \in LightSourceIds, fl2 \in LightSourceIds}

InitLight ==
    /\ entry = "def_light_source"
    /\ basic_config_dict \in BasicConfigs
    /\ config_dat = <<>>
    /\ pc = "def_light_source"
    /\ output_xml = FALSE
    /\ include_mip = TRUE
    /\ folders = 1
    /\ folder = 1
    /\ attempted = <<>>
    /\ NoOutput
    /\ FreshLocals

\* img_metadata["lasers"] = [def_light_source(...)] and
\* img_metadata["leds"] = [def_light_source(...), ...]
DefLightSources ==
    /\ pc = "def_light_source"
    /\ ome_img_md' =
          [lasers |-> <<def_light_source(basic_config_dict.light_source_id_ht)>>,
           leds |-> <<def_light_source(basic_config_dict.light_source_id_fl0),
                      def_light_source(basic_config_dict.light_source_id_fl1),
                      def_light_source(basic_config_dict.light_source_id_fl2)>>]
    /\ pc' = "exit"
    /\ UNCHANGED <<folder, exception, globals, tiling_file, exp_config_dict, tiling_dict,
                   dat, keys_to_loop, i_chan, fl_mip_counter, fl_3d_counter,
                   plane_offset, img_ome_xmls, imgs, ome_xmls, emitted>>

NextLight == DefLightSources

SpecLight == InitLight /\ [][NextLight]_vars

(***************************************************************************)
(* The config.dat part of read_image_config on its own. A line is the      *)
(* sequence of its characters.                                             *)
(***************************************************************************)
\* most lines of a config.dat
MaxLines == 3

\* "Immersion_RI", 12 characters
ImmersionKey == <<"I", "m", "m", "e", "r", "s", "i", "o", "n", "_", "R", "I">>

\* str.startswith
startswith(s, prefix) == Len(s) >= Len(prefix) /\ SubSeq(s, 1, Len(prefix)) = prefix

\* str.rstrip(ch)
RECURSIVE rstrip(_, _)
rstrip(s, ch) ==
    IF s # <<>> /\ s[Len(s)] = ch THEN rstrip(SubSeq(s, 1, Len(s) - 1), ch) ELSE s

\* str.split(sep, 1): the whole text when it holds no sep
split(s, sep) ==
    LET at == {i \in 1..Len(s) : s[i] = sep}
    IN  IF at = {} THEN <<s>>
        ELSE LET i == CHOOSE j \in at : \A k \in at : j <= k
             IN  <<SubSeq(s, 1, i - 1), SubSeq(s, i + 1, Len(s))>>

\* l.549-552: the first line that starts with the key is rebuilt from the
\* key, a comma and the line's text from its 13th character on
InsertDelimiter(lines) ==
    LET at == {i \in 1..Len(lines) : startswith(lines[i], ImmersionKey)}
    IN  IF at = {} THEN lines
        ELSE LET i == CHOOSE j \in at : \A k \in at : j <= k
             IN  [lines EXCEPT ![i] = ImmersionKey \o <<",">>
                                       \o SubSeq(lines[i], 13, Len(lines[i]))]

NotBlank(item) == item # <<"\n">>

\* l.554: the lines but the blank ones, stripped and split at the first comma
SplitLines(lines) ==
    LET kept == SelectSeq(lines, NotBlank)
    IN  [i \in 1..Len(kept) |-> split(rstrip(kept[i], "\n"), ",")]

\* l.575: {item[0]: item[1] for item in ...}: the last item of a key wins, an
\* item of one element raises IndexError
DictOfItems(items) ==
    IF \E i \in 1..Len(items) : Len(items[i]) < 2
    THEN [raised |-> "IndexError", value |-> EmptyDict]
    ELSE [raised |-> "",
          value |-> [k \in {items[i][1] : i \in 1..Len(items)} |->
                       LET at == {i \in 1..Len(items) : items[i][1] = k}
                           i == CHOOSE j \in at : \A m \in at : j >= m
                       IN  items[i][2]]]

\* read_image_config, config.dat only: [raised, value]
read_config_dat(lines) == DictOfItems(SplitLines(InsertDelimiter(lines)))

\* the lines a config.dat may hold: the immersion line as the producer writes
\* it and with its comma, two plain lines, a value that holds a comma, a blank
\* line, a line without a comma, and a line that lacks the newline
ConfigLines ==
    {ImmersionKey \o <<"1", ".", "3", "\n">>,
     ImmersionKey \o <<",", "1", ".", "3", "\n">>,
     <<"N", "A", ",", "1", ".", "2", "\n">>,
     <<"T", ",", "a", ",", "b", "\n">>,
     <<"\n">>,
     <<"[", "c", "]", "\n">>,
     <<"N", "A", ",", "0", ".", "8">>}

\* readlines(): every line but the last ends with a newline
ConfigFiles ==
    {f \in UNION {[1..n -> ConfigLines] : n \in 1..MaxLines} :
        \A i \in 1..(Len(f) - 1) : f[i][Len(f[i])] = "\n"}

InitConfig ==
    /\ entry = "read_image_config"
    /\ basic_config_dict = overall_md
    /\ config_dat \in ConfigFiles
    /\ pc = "read_config_dat"
    /\ output_xml = FALSE
    /\ include_mip = TRUE
    /\ folders = 1
    /\ folder = 1
    /\ attempted = <<>>
    /\ NoOutput
    /\ FreshLocals

\* exp_config_dat_1 = f.readlines() ... exp_config_dict = {item[0]: item[1] ...}
ReadConfigDat ==
    /\ pc = "read_config_dat"
    /\ LET r == read_config_dat(config_dat)
       IN  /\ exp_config_dict' = r.value
           /\ exception' = r.raised
    /\ pc' = "exit"
    /\ UNCHANGED <<folder, globals, tiling_file, tiling_dict, ome_img_md, dat,
                   keys_to_loop, i_chan, fl_mip_counter, fl_3d_counter, plane_offset,
                   img_ome_xmls, imgs, ome_xmls, emitted>>

NextConfig == ReadConfigDat

SpecConfig == InitConfig /\ [][NextConfig]_vars

(***************************************************************************)
(* Properties of the plane offsets, plane counts, channels and planes.     *)
(***************************************************************************)
\* the planes declared by the first k images
RECURSIVE PlaneCountSum(_, _)
PlaneCountSum(images, k) ==
    IF k = 0 THEN 0
    ELSE PlaneCountSum(images, k - 1) + images[k].tiff_data.plane_count

\* the attributes of the group image k was built from
GroupAttrs(k) == dat.groups[emitted[k].name].attrs

\* C1: the offset (ifd) of the first image is 0, the offset of each image is
\* the sum of the plane counts of the images before it, the offsets never
\* decrease, and the offset held after the images built so far (after the last
\* one, when the loop has ended) is the sum of their plane counts, whatever
\* groups were skipped in between.
C1_OffsetsAreRunningSums ==
    /\ \A k \in 1..Len(img_ome_xmls) :
          img_ome_xmls[k].tiff_data.ifd = PlaneCountSum(img_ome_xmls, k - 1)
    /\ Len(img_ome_xmls) > 0 => img_ome_xmls[1].tiff_data.ifd = 0
    /\ \A k \in 1..(Len(img_ome_xmls) - 1) :
          img_ome_xmls[k].tiff_data.ifd <= img_ome_xmls[k + 1].tiff_data.ifd
    /\ plane_offset = PlaneCountSum(img_ome_xmls, Len(img_ome_xmls))
    /\ ome_xmls # <<>> => ome_xmls[1].images = img_ome_xmls

\* a document of two images or more, built past a skipped group, whose
\* images declare more planes than there are images
C1_Witness ==
    /\ pc = "save"
    /\ Len(img_ome_xmls) >= 2
    /\ \E i \in 1..Len(keys_to_loop) : keys_to_loop[i] \notin KnownNames
    /\ plane_offset > Len(img_ome_xmls)
    /\ img_ome_xmls[2].tiff_data.ifd > 1

\* C2: every image declares SizeZ x DataCount x 1 planes when its group has
\* a SizeZ attribute and 1 x DataCount x 1 planes when it has none, whichever
\* other attributes the group has.
C2_PlaneCountFromSizeZ ==
    \A k \in 1..Len(img_ome_xmls) :
        LET a == GroupAttrs(k)
        IN  img_ome_xmls[k].tiff_data.plane_count =
                (IF "SizeZ" \in DOMAIN a THEN a["SizeZ"] ELSE 1) * a["DataCount"] * 1

\* C3: every image has exactly one channel, the channel ids are pairwise
\* distinct, and the k-th image built (k = 0, 1, ...) has the id Channel:k.
C3_ChannelIdIsEmissionIndex ==
    /\ \A k \in 1..Len(img_ome_xmls) :
          /\ Len(img_ome_xmls[k].channels) = 1
          /\ img_ome_xmls[k].channels[1].id = ChannelId(k - 1)
    /\ \A k, l \in 1..Len(img_ome_xmls) :
          k # l => img_ome_xmls[k].channels[1].id # img_ome_xmls[l].channels[1].id

\* the tiling file of the folder gives the two keys of the elapsed time
TilingGiven ==
    /\ tiling_file.found
    /\ {"tile_timestep", "tile_timestep_size"} \subseteq DOMAIN tiling_file.lines

\* the elapsed time the tiling file states: tile_timestep x tile_timestep_size
TilingTime ==
    IntOf(tiling_file.lines["tile_timestep"]) * IntOf(tiling_file.lines["tile_timestep_size"])

\* C4, as amended: for every plane of every image, when a tiling file was
\* found and gives tile_timestep and tile_timestep_size, the elapsed time is
\* tile_timestep x tile_timestep_size; when no tiling file was found, or the
\* one found is empty, the elapsed time of the plane of time index j is
\* j x TimeInterval of the image's group.
C4_ElapsedTime ==
    \A k \in 1..Len(img_ome_xmls) :
        \A p \in 1..Len(img_ome_xmls[k].planes) :
            LET plane == img_ome_xmls[k].planes[p]
            IN  IF TilingGiven
                THEN plane.delta_t = TilingTime
                ELSE plane.delta_t = plane.the_t * GroupAttrs(k)["TimeInterval"]

\* an image with planes in a folder whose tiling file gives the two keys,
\* the tiling time differing from every multiple of TimeInterval in reach
C4_Witness ==
    /\ TilingGiven
    /\ Len(img_ome_xmls) >= 1
    /\ Len(img_ome_xmls[1].planes) >= 1
    /\ \A j \in 0..MaxT : TilingTime # j * GroupAttrs(1)["TimeInterval"]

\* C4, as claimed: whenever a tiling file was found the elapsed time is
\* tile_timestep x tile_timestep_size, and j x TimeInterval when none was found.
C4_Original ==
    \A k \in 1..Len(img_ome_xmls) :
        \A p \in 1..Len(img_ome_xmls[k].planes) :
            LET plane == img_ome_xmls[k].planes[p]
            IN  IF tiling_file.found
                THEN TilingGiven /\ plane.delta_t = TilingTime
                ELSE plane.delta_t = plane.the_t * GroupAttrs(k)["TimeInterval"]

\* C5: the plane list of every image holds exactly one record per pair
\* (time index, z index) with 0 <= time index < size_t and 0 <= z index <
\* size_z, so its length is the declared z-count x t-count, the plane count.
C5_OnePlanePerTimeAndZ ==
    \A k \in 1..Len(img_ome_xmls) :
        LET im == img_ome_xmls[k]
            cells == {<<im.planes[p].the_t, im.planes[p].the_z>> : p \in 1..Len(im.planes)}
        IN  /\ cells = (0..(im.size_t - 1)) \X (0..(im.size_z - 1))
            /\ Len(im.planes) = im.size_z * im.size_t
            /\ Len(im.planes) = im.tiff_data.plane_count

(***************************************************************************)
(* Properties of def_annotations.                                          *)
(***************************************************************************)
\* def_annotations has returned its list
Returned == entry = "def_annotations" /\ pc = "exit" /\ exception = ""

\* how many annotations of the list have the id Annotation:i
AnnCount(anns, i) == Cardinality({k \in 1..Len(anns) : anns[k].id = AnnotationId(i)})

\* C6: the list def_annotations returns holds the "overall" annotation
\* (Annotation:0) exactly once, and no Annotation:(3+n) for a sub-channel n in
\* {0,1,2} whose flag FLCHn_Enable is "false", whatever the other config
\* values are.
C6_OverallOnceAndNoDisabledChannel ==
    Returned =>
        /\ AnnCount(ome_img_md.anns, 0) = 1
        /\ \A n \in 0..2 :
              exp_config_dict["FLCH" \o StrOf(n) \o "_Enable"] = "false"
                  => AnnCount(ome_img_md.anns, 3 + n) = 0

\* a returned list with the annotations of sub-channels 0 and 2 and none for
\* sub-channel 1, whose flag is "false"
C6_Witness ==
    /\ Returned
    /\ exp_config_dict["FLCH1_Enable"] = "false"
    /\ AnnCount(ome_img_md.anns, 3) = 1
    /\ AnnCount(ome_img_md.anns, 5) = 1
    /\ Len(ome_img_md.anns) >= 4

\* the image count a config gives under a key is positive
Positive(md, key) == key \in DOMAIN md /\ IntOf(md[key]) > 0
\* the image count a config gives under a key is 0
Zero(md, key) == key \in DOMAIN md /\ IntOf(md[key]) = 0

\* C7: a conditional annotation (HT = Annotation:1, brightfield =
\* Annotation:2, fluorescence = Annotation:3..5) is in the list only if the
\* image count of its modality is positive or the count key is absent; a
\* config whose HT, brightfield or fluorescence count is 0 gives no annotation
\* of that modality, and a config without the brightfield count key gives the
\* brightfield annotation.
C7_AnnotationsFollowImageCounts ==
    Returned =>
        LET md == exp_config_dict
            has(i) == AnnCount(ome_img_md.anns, i) > 0
        IN  /\ has(1) => \/ "Images HT3D" \notin DOMAIN md
                         \/ Positive(md, "Images HT3D")
                         \/ Positive(md, "Images HT2D")
            /\ has(2) => "Images BF" \notin DOMAIN md \/ Positive(md, "Images BF")
            /\ \A n \in 0..2 :
                  has(3 + n) => \/ "Images FL3D" \notin DOMAIN md
                                \/ Positive(md, "Images FL3D")
                                \/ Positive(md, "Images FL")
            /\ Zero(md, "Images HT3D") /\ Zero(md, "Images HT2D") => ~has(1)
            /\ Zero(md, "Images BF") => ~has(2)
            /\ (Zero(md, "Images FL3D") /\ ~Positive(md, "Images FL"))
                  => \A n \in 0..2 : ~has(3 + n)
            /\ "Images BF" \notin DOMAIN md => has(2)

(***************************************************************************)
(* Properties of the failures of a conversion and of a batch.              *)
(***************************************************************************)
\* C8: when transform_folder has ended, every subfolder listed was attempted
\* exactly once, in listing order, whichever of them failed; every failure
\* was caught, and every subfolder that did not fail is converted.  While it
\* runs, the folders attempted are the first ones of the listing, in order.
C8_EveryFolderAttempted ==
    /\ Len(attempted) = folder
    /\ \A i \in 1..Len(attempted) : attempted[i] = i
    /\ \A i \in 1..Len(failed) : failed[i] \in 1..folder
    /\ \A i, j \in 1..Len(failed) : i < j => failed[i] < failed[j]
    /\ pc = "exit" =>
          /\ exception = ""
          /\ folder = folders
          /\ \A f \in 1..folders :
                (f \in Range(failed)) # (<<f, ".ome.tiff">> \in files)

\* a batch of two folders that has ended: the first folder failed, the
\* second one, attempted after it, is converted
C8_Witness ==
    /\ entry = "parse_multiple"
    /\ pc = "exit"
    /\ folders = 2
    /\ attempted = <<1, 2>>
    /\ failed = <<1>>
    /\ <<2, ".ome.tiff">> \in files

\* C9: when the metadata build of an image fails, transform_tcf has ended
\* for the folder: no step of the conversion is left to take, so no later
\* image is processed, the writer was not and is not called for the folder,
\* and neither the .ome.tiff nor the .ome.xml of the folder is written.
C9_BuildFailureAbortsFolder ==
    exception = "Exception during xml building" =>
        /\ pc = "raised"
        /\ ~ENABLED Convert
        /\ folder \notin Range(sink_calls)
        /\ ome_xmls = <<>>
        /\ <<folder, ".ome.tiff">> \notin files
        /\ <<folder, ".ome.xml">> \notin files

\* a build failure after an image was built, with a later entry of the plan
\* not yet visited
C9_Witness ==
    /\ exception = "Exception during xml building"
    /\ Len(img_ome_xmls) >= 1
    /\ i_chan + 1 < Len(keys_to_loop)
    /\ sink_calls = <<>>
    /\ files = {}

(***************************************************************************)
(* Properties of the traversal plan.                                       *)
(***************************************************************************)
\* how often x occurs in a sequence, and where it occurs first
CountIn(seq, x) == Cardinality({i \in 1..Len(seq) : seq[i] = x})
FirstIndex(seq, x) == CHOOSE i \in 1..Len(seq) : seq[i] = x /\ \A j \in 1..(i - 1) : seq[j] # x

\* the images built from group g, in the order they were built
EmittedOf(g) == SelectSeq(emitted, LAMBDA e : e.name = g)

\* the fluorescence groups of the container that the conversion includes
IncludedFLGroups == {g \in DOMAIN dat.sub_keys : include_mip \/ ~HasMIP(g)}

\* C10: a nested fluorescence group with n sub-channels, n >= 0, has n
\* entries in the plan and the conversion does not fail on its sub-channel
\* listing; when the loop has ended, n images were built for the group, the
\* k-th from the k-th key of the group's listing; and the groups of the
\* images built appear first in the order the container lists them.
C10_OneImagePerSubChannel ==
    /\ exception # "IndexError"
    /\ pc # "resolve" =>
          \A g \in IncludedFLGroups : CountIn(keys_to_loop, g) = Len(dat.sub_keys[g])
    /\ pc \in {"save", "exit"} =>
          \A g \in IncludedFLGroups :
              /\ Len(EmittedOf(g)) = Len(dat.sub_keys[g])
              /\ \A k \in 1..Len(EmittedOf(g)) :
                    EmittedOf(g)[k].channel = dat.sub_keys[g][k]
    /\ LET names == [k \in 1..Len(emitted) |-> emitted[k].name]
       IN  \A a, b \in Range(names) :
               FirstIndex(names, a) < FirstIndex(names, b)
                   => FirstIndex(dat.keys, a) < FirstIndex(dat.keys, b)

(***************************************************************************)
(* Properties of the exclusion of projections and of unknown groups.       *)
(***************************************************************************)
\* the recognized entries of a plan
KnownEntries(keys) == SelectSeq(keys, LAMBDA k : k \in KnownNames)

\* C11: with include_mip false the plan holds no projection entry (2DMIP,
\* 2DFLMIP), whatever the number of sub-channels of 2DFLMIP, so no image
\* comes from a projection group; and when the loop has ended every other
\* recognized group of the container has its images: one, or one per
\* sub-channel of 3DFL.
C11_NoProjectionWhenExcluded ==
    ~include_mip =>
        /\ \A i \in 1..Len(keys_to_loop) : ~HasMIP(keys_to_loop[i])
        /\ CountIn(keys_to_loop, "2DFLMIP") = 0
        /\ \A k \in 1..Len(emitted) : emitted[k].name \notin {"2DMIP", "2DFLMIP"}
        /\ pc \in {"save", "exit"} =>
              \A g \in (Range(dat.keys) \cap KnownNames) \ {"2DMIP", "2DFLMIP"} :
                  Len(EmittedOf(g)) =
                      IF g \in FLNames THEN Len(dat.sub_keys[g]) ELSE 1

\* a conversion without projections of a container that holds 2DFLMIP with
\* two sub-channels or more next to another group, which is built
C11_Witness ==
    /\ ~include_mip
    /\ pc = "save"
    /\ "2DFLMIP" \in DOMAIN dat.sub_keys
    /\ Len(dat.sub_keys["2DFLMIP"]) >= 2
    /\ Len(emitted) >= 1

\* C12: the iteration of a group whose name is none of 2DMIP, 2D, BF, 3D,
\* 2DFLMIP, 3DFL raises nothing, adds no image and no pixel array and leaves
\* the plane offset as it is, the loop going on with the next entry; and a
\* conversion that ends has built an image for every recognized entry of the
\* plan and written them.
C12_UnknownGroupSkipped ==
    [][/\ (InLoop /\ CurrentName \notin KnownNames) =>
              /\ pc' = "loop"
              /\ exception' = ""
              /\ i_chan' = i_chan + 1
              /\ img_ome_xmls' = img_ome_xmls
              /\ imgs' = imgs
              /\ plane_offset' = plane_offset
       /\ pc' = "exit" =>
              /\ Len(img_ome_xmls') = Len(KnownEntries(keys_to_loop'))
              /\ Len(imgs') = Len(KnownEntries(keys_to_loop'))
              /\ <<folder', ".ome.tiff">> \in files']_vars

\* a conversion that has ended and written an image of a group listed after
\* an unknown one
C12_Witness ==
    /\ pc = "exit"
    /\ Len(keys_to_loop) >= 2
    /\ keys_to_loop[1] \notin KnownNames
    /\ Len(img_ome_xmls) = 1
    /\ <<folder, ".ome.tiff">> \in files

(***************************************************************************)
(* Properties of the references of the document.                           *)
(***************************************************************************)
\* C13: in the document of a folder, every annotation id an image refers to
\* is the id of an annotation of the document's annotation list.
C13_AnnotationRefsResolve ==
    ome_xmls # <<>> =>
        \A k \in 1..Len(ome_xmls[1].images) :
            \A r \in 1..Len(ome_xmls[1].images[k].annotation_refs) :
                \E a \in 1..Len(ome_xmls[1].structured_annotations) :
                    ome_xmls[1].structured_annotations[a].id =
                        ome_xmls[1].images[k].annotation_refs[r]

\* C14: the document of a folder holds one instrument, one experimenter, one
\* experimenter group and one experiment, and every image built for the
\* folder, whatever its modality, refers to the ids of these.
C14_OneInstrumentExperimenterExperiment ==
    /\ \A k \in 1..Len(img_ome_xmls) :
          /\ img_ome_xmls[k].instrument_ref = ome_img_md.instr.id
          /\ img_ome_xmls[k].experimenter_ref = overall_md.exper_id
          /\ img_ome_xmls[k].experiment_ref = ome_img_md.exp.id
    /\ ome_xmls # <<>> =>
          /\ Len(ome_xmls[1].instruments) = 1
          /\ Len(ome_xmls[1].experimenters) = 1
          /\ Len(ome_xmls[1].experimenter_groups) = 1
          /\ Len(ome_xmls[1].experiments) = 1
          /\ \A k \in 1..Len(ome_xmls[1].images) :
                /\ ome_xmls[1].images[k].instrument_ref = ome_xmls[1].instruments[1].id
                /\ ome_xmls[1].images[k].experimenter_ref = ome_xmls[1].experimenters[1]
                /\ ome_xmls[1].images[k].experiment_ref = ome_xmls[1].experiments[1].id

\* a written document of two images of different modalities
C14_Witness ==
    /\ pc = "exit"
    /\ ome_xmls # <<>>
    /\ Len(ome_xmls[1].images) = 2
    /\ emitted[1].name # emitted[2].name
    /\ ome_xmls[1].images[1].instrument_ref = "Instrument:0"

(***************************************************************************)
(* Properties of def_channel.                                              *)
(***************************************************************************)
\* the excitation wavelength and the color of fluorescence sub-channel n
ExcitationOf(n) == CASE n = 0 -> 385 [] n = 1 -> 470 [] n = 2 -> 570
ColorOf(n) == CASE n = 0 -> "#0000FFFF" [] n = 1 -> "#008000FF" [] n = 2 -> "#FF0000FF"

\* C15: the channel def_channel returns for fluorescence sub-channel n in
\* {0,1,2} has the excitation wavelength and the color of n (385 nm and
\* #0000FFFF, 470 nm and #008000FF, 570 nm and #FF0000FF) whatever the config
\* holds; its emission wavelength and fluorophore name are the config's.
C15_ExcitationAndColorFixed ==
    (entry = "def_channel" /\ pc = "exit" /\ exception = "") =>
        \A n \in 0..2 :
            LET key == "channel_fl" \o StrOf(n)
            IN  key \in DOMAIN ome_img_md =>
                    /\ ome_img_md[key].excitation = ExcitationOf(n)
                    /\ ome_img_md[key].color = ColorOf(n)
                    /\ ome_img_md[key].emission =
                          exp_config_dict["FLCH" \o StrOf(n) \o "_Fluorophore_Emission"]
                    /\ ome_img_md[key].fluor =
                          exp_config_dict["FLCH" \o StrOf(n) \o "_Fluorophore_Name"]

\* the channel of sub-channel 2, returned for a config whose fluorophore of
\* that sub-channel is GFP at 520 nm
C15_Witness ==
    /\ entry = "def_channel"
    /\ pc = "exit"
    /\ "channel_fl2" \in DOMAIN ome_img_md
    /\ ome_img_md["channel_fl2"].excitation = 570
    /\ ome_img_md["channel_fl2"].fluor = "GFP"
    /\ ome_img_md["channel_fl2"].emission = "520"

(***************************************************************************)
(* Properties of the annotation references of an image.                    *)
(***************************************************************************)
\* the annotation of the modality of the k-th image built: 1 for 3D, 2D and
\* 2DMIP, 2 for BF, 3+n for sub-channel n of 2DFLMIP or 3DFL
ModalityAnnotation(k) ==
    CASE emitted[k].name \in {"3D", "2D", "2DMIP"} -> 1
      [] emitted[k].name = "BF" -> 2
      [] emitted[k].name \in FLNames -> 3 + IntOf(Char2(emitted[k].channel))

\* the annotation ids the k-th image built refers to
ReferencedIds(k) ==
    {img_ome_xmls[k].annotation_refs[r] : r \in 1..Len(img_ome_xmls[k].annotation_refs)}

\* C16, as amended: every image refers to exactly the annotations 0 and the
\* one of its modality, and to 6 if and only if a tiling file was found that
\* gives tile_timestep and tile_timestep_size (an empty tiling file adds no
\* reference), each of them once.
C16_AnnotationIdSet ==
    \A k \in 1..Len(img_ome_xmls) :
        /\ ReferencedIds(k) =
              {AnnotationId(0), AnnotationId(ModalityAnnotation(k))}
                  \cup (IF TilingGiven THEN {AnnotationId(6)} ELSE {})
        /\ Len(img_ome_xmls[k].annotation_refs) = Cardinality(ReferencedIds(k))

\* a fluorescence image of sub-channel 2 built in a folder with tiling
\* metadata, referring to the annotations 0, 5 and 6
C16_Witness ==
    /\ TilingGiven
    /\ Len(img_ome_xmls) >= 1
    /\ emitted[1].name = "3DFL"
    /\ img_ome_xmls[1].annotation_refs =
          <<AnnotationId(0), AnnotationId(5), AnnotationId(6)>>

\* C16, as claimed: every image refers to exactly the annotations 0 and the
\* one of its modality, and to 6 if and only if a tiling file was found.
C16_Original ==
    \A k \in 1..Len(img_ome_xmls) :
        ReferencedIds(k) =
            {AnnotationId(0), AnnotationId(ModalityAnnotation(k))}
                \cup (IF tiling_file.found THEN {AnnotationId(6)} ELSE {})

(***************************************************************************)
(* Properties of the pixel arrays and of the stage label.                  *)
(***************************************************************************)
\* C17: the pixel array of every image has the 5 axes (series, time, z, y,
\* x) with series size 1; its time and z sizes are the size_t and size_z
\* build_ome_xml declares for the image, and for the 2D modalities (2D,
\* 2DMIP, 2DFLMIP) the z axis has size 1.
C17_FiveAxes ==
    \A k \in 1..Len(imgs) :
        /\ Len(imgs[k]) = 5
        /\ imgs[k][1] = 1
        /\ imgs[k][2] = img_ome_xmls[k].size_t
        /\ imgs[k][3] = img_ome_xmls[k].size_z
        /\ emitted[k].name \in {"2D", "2DMIP", "2DFLMIP"} => imgs[k][3] = 1

\* C18: an image has a stage label if and only if it is a 3DFL image, and
\* the z of the label is OffsetZ minus half of ResolutionZ x SizeZ of the
\* 3DFL group, rounded to the hundredth (the unit of the model): twice the z
\* differs from 2 x OffsetZ - ResolutionZ x SizeZ by one at most.
C18_StageLabelOnly3DFL ==
    \A k \in 1..Len(img_ome_xmls) :
        /\ (emitted[k].name = "3DFL") <=> (img_ome_xmls[k].stage_label # <<>>)
        /\ emitted[k].name = "3DFL" =>
              LET a == GroupAttrs(k)
                  twice == 2 * a["OffsetZ"] - a["ResolutionZ"] * a["SizeZ"]
              IN  /\ Len(img_ome_xmls[k].stage_label) = 1
                  /\ 2 * img_ome_xmls[k].stage_label[1].z - twice \in -1..1

\* a 3DFL image with its label next to an image of another modality
\* without one
C18_Witness ==
    /\ Len(img_ome_xmls) >= 2
    /\ \E k \in 1..Len(img_ome_xmls) :
          /\ emitted[k].name = "3DFL"
          /\ img_ome_xmls[k].stage_label # <<>>
          /\ img_ome_xmls[k].stage_label[1].z < GroupAttrs(k)["OffsetZ"]
    /\ \E k \in 1..Len(img_ome_xmls) :
          emitted[k].name # "3DFL" /\ img_ome_xmls[k].stage_label = <<>>

(***************************************************************************)
(* Properties of the order of the steps and of the container.              *)
(***************************************************************************)
\* the steps of transform_tcf in program order: reading the configs (three
\* statements) and opening the container, resolving the modalities, the
\* loop, the writing of the outputs, the return
StepOrder ==
    <<"read_image_config", "read_tiling_info", "define_image_metadata", "open",
      "resolve", "loop", "save", "exit">>
StepIndex(p) == CHOOSE i \in 1..Len(StepOrder) : StepOrder[i] = p

\* C19: every step of transform_tcf stays at its statement (the loop), goes
\* on to the next one in program order, or fails, and nothing follows a
\* failure or the return; the writer is called only once the loop has ended
\* with an image for every recognized entry and the document is assembled,
\* it was not called before, and a conversion that returns has called it
\* exactly once.
C19_StepsInOrder ==
    [][/\ pc \notin {"raised", "exit"}
       /\ \/ pc' = "raised"
          \/ pc' = pc /\ pc = "loop"
          \/ pc' = "save" /\ pc = "loop" /\ ome_xmls = <<>> /\ ome_xmls' # <<>>
          \/ pc' # "save" /\ StepIndex(pc') = StepIndex(pc) + 1
       /\ sink_calls' # sink_calls =>
             /\ pc = "save"
             /\ sink_calls = <<>>
             /\ ome_xmls # <<>>
             /\ ome_xmls[1].images = img_ome_xmls
             /\ i_chan = Len(keys_to_loop)
             /\ Len(img_ome_xmls) = Len(KnownEntries(keys_to_loop))
       /\ pc' = "exit" => sink_calls' = <<folder>>
       /\ pc' = "raised" => exception' # ""]_vars

\* a conversion that has returned after building two images and calling the
\* writer once
C19_Witness ==
    /\ pc = "exit"
    /\ Len(img_ome_xmls) >= 2
    /\ ome_xmls # <<>>
    /\ sink_calls = <<folder>>
    /\ <<folder, ".ome.tiff">> \in files

\* C20: the container of a folder is open only while transform_tcf works on
\* it: it is closed when the conversion of the folder has returned or an
\* exception has left it, before transform_folder goes on to the next folder,
\* and the containers of two folders are never open at once.
C20_ContainerReleased ==
    /\ Cardinality(open_files) <= 1
    /\ open_files \subseteq {folder}
    /\ pc \in {"raised", "for_folder", "exit", "listdir"} => open_files = {}

(***************************************************************************)
(* Properties of the light sources.                                        *)
(***************************************************************************)
LightSourcesBuilt == entry = "def_light_source" /\ pc = "exit"

\* the record def_light_source gives the reserved identifier
IsHTLaser(src) ==
    /\ src.kind = "Laser"
    /\ src.tuneable = FALSE
    /\ src.type = "SolidState"
    /\ src.wavelength = 532

\* C21: for every basic config, the source built from light_source_id_ht and
\* placed in the laser list is a non-tunable solid-state laser of 532 nm, and
\* the three sources built from the fluorescence keys and placed in the LED
\* list are LED records; a source built is the laser record exactly when its
\* identifier is the reserved LightSource:0.
C21_HTLaserAndLEDs ==
    LightSourcesBuilt =>
        /\ Len(ome_img_md.lasers) = 1
        /\ IsHTLaser(ome_img_md.lasers[1])
        /\ ome_img_md.lasers[1].id = basic_config_dict.light_source_id_ht
        /\ Len(ome_img_md.leds) = 3
        /\ \A k \in 1..3 : ome_img_md.leds[k].kind = "LightEmittingDiode"
        /\ \A src \in Range(ome_img_md.lasers \o ome_img_md.leds) :
              src.kind = "Laser" <=> src.id = "LightSource:0"

(***************************************************************************)
(* Properties of the reading of config.dat.                                *)
(***************************************************************************)
ConfigRead == entry = "read_image_config" /\ pc = "exit" /\ exception = ""

\* a line with the comma put after the key where the line lacks it
DelimiterWhereLacking(line) ==
    IF startswith(line, ImmersionKey) /\ ~startswith(line, ImmersionKey \o <<",">>)
    THEN ImmersionKey \o <<",">> \o SubSeq(line, 13, Len(line))
    ELSE line

\* C22: a line of config.dat that starts with Immersion_RI gets the comma
\* inserted only when it lacks it, so that 'Immersion_RI<v>' and
\* 'Immersion_RI,<v>' both map Immersion_RI to <v>, and every other line is
\* read as it stands: the config read is that of the file with the comma put
\* where it lacks.
C22_DelimiterOnlyWhenLacking ==
    ConfigRead =>
        exp_config_dict =
            DictOfItems(SplitLines([i \in 1..Len(config_dat) |->
                                      DelimiterWhereLacking(config_dat[i])])).value

(***************************************************************************)
(* Properties of def_channel for a sub-channel index outside 0, 1, 2.      *)
(***************************************************************************)
\* the two fluorophore keys of the sub-channels 0..3
FluorophoreKeys ==
    {"FLCH" \o StrOf(n) \o "_Fluorophore_Emission" : n \in 0..3}
    \cup {"FLCH" \o StrOf(n) \o "_Fluorophore_Name" : n \in 0..3}

\* C23: when the config holds the fluorophore keys of the index asked for,
\* def_channel returns a channel record and raises nothing, also for the
\* sub-channel index 3 that is none of 0, 1, 2: on a config that holds the
\* keys of the indices 0..3, every call has returned a record to its caller.
C23_ReturnsForUnknownIndex ==
    (entry = "def_channel" /\ pc = "exit"
        /\ FluorophoreKeys \subseteq DOMAIN exp_config_dict) =>
        /\ exception = ""
        /\ \E image_name \in ChannelImageNames :
              DOMAIN ome_img_md = {"channel_" \o image_name}
=============================================================================
